---- MODULE Spec2Model ----
(***************************************************************************)
(* Model of src/spapi/updateListItems.js: the batch builder                *)
(* (getBatchUpdateList), the concurrency-limited dispatch loop             *)
(* (execBatchUpdate / onUpdateDone) and the response aggregation           *)
(* (resolveUpdateListItems / processAjaxResponses).                        *)
(*                                                                         *)
(* JavaScript values are tagged records (field "kind"); JavaScript strings *)
(* that the code indexes are sequences of one-character strings, so that   *)
(* `s[1]` on a string is the character it is in JavaScript.                *)
(***************************************************************************)
EXTENDS Integers, Sequences, FiniteSets, TLC

\* ---------------------------------------------------------------- bounds
MaxLen == 3          \* longest queue of updates handed to updateListItems
MaxBatch == 2        \* largest options.batchSize tried (smallest is 0)
MaxConc == 2         \* largest options.concurrency tried (smallest is 0)
MaxSent == MaxLen + 1   \* cap on the requests of a run that never ends

\* ------------------------------------------------------ JavaScript values
Undefined == [kind |-> "undefined"]
Str(chars) == [kind |-> "string", chars |-> chars]
Arr(items) == [kind |-> "array", items |-> items]
Xhr(k) == [kind |-> "jqXHR", req |-> k]
Xml(k, err) == [kind |-> "xml", req |-> k, error |-> err]

\* v[i] of JavaScript, i counted from 0: an element of an array, a character
\* of a string, undefined on anything else (a jqXHR has no numeric property)
JsIndex(v, i) ==
    IF v.kind = "array"
    THEN IF i < Len(v.items) THEN v.items[i + 1] ELSE Undefined
    ELSE IF v.kind = "string"
         THEN IF i < Len(v.chars) THEN Str(<<v.chars[i + 1]>>) ELSE Undefined
         ELSE Undefined

\* the truthiness `x || y` tests
Truthy(v) == ~(v.kind = "undefined" \/ (v.kind = "string" /\ v.chars = <<>>))

UpdateSuccessful ==
    Str(<<"U","p","d","a","t","e"," ","S","u","c","c","e","s","s","f","u","l",".">>)
HttpError == Str(<<"H","T","T","P"," ","e","r","r","o","r",".">>)
SuccessStatus == Str(<<"s","u","c","c","e","s","s">>)

\* what $.ajax can fail with: (textStatus, errorThrown)
AjaxFailures ==
    { <<Str(<<"t","i","m","e","o","u","t">>), Str(<<"t","i","m","e","o","u","t">>)>>,
      <<Str(<<"e","r","r","o","r">>), Str(<<"N","o","t"," ","F","o","u","n","d">>)>>,
      <<Str(<<"e","r","r","o","r">>), Str(<<>>)>> }

\* the error texts a SharePoint response can embed (<<>>: none)
SPErrors == { <<>>, <<"d","u","p">>, <<"l","o","c","k","e","d">> }

\* the arguments request k's promise is settled with
\*   done(data, textStatus, jqXHR)      fail(jqXHR, textStatus, errorThrown)
DoneArgs(k, err) == <<Xml(k, err), SuccessStatus, Xhr(k)>>
FailArgs(k, f) == <<Xhr(k), f[1], f[2]>>
Pending == [state |-> "pending", args |-> <<>>]
Resolved(args) == [state |-> "resolved", args |-> args]
Rejected(args) == [state |-> "rejected", args |-> args]

\* ../sputils/doesMsgHaveError and ../sputils/getMsgError
doesMsgHaveError(xmlMsg) == xmlMsg.kind = "xml" /\ xmlMsg.error # <<>>
getMsgError(xmlMsg) == Str(xmlMsg.error)

\* ------------------------------------------------------------- the queue
\* an update string: its position in options.updates, and whether the text
\* already holds a </Batch> tag of its own
Update(i, tagged) == [id |-> i, hasBatchTag |-> tagged]

\* getUpdateArray on an Array<String>: the strings, in order, unchanged
getUpdateArray(updates) == updates

\* the queues tried: n plain updates, or n updates one of which is tagged
Queues ==
    { [i \in 1..n |-> Update(i, i = t)] : n \in 0..MaxLen, t \in 0..MaxLen }

VARIABLES
    pc,                  \* "idle" before updateListItems is called, then "called"
    opt,                 \* the options of the call
    updates,             \* opt._updates, the updates not yet sent
    updatePromisesList,  \* the request numbers pushed, in push order
    batchProcessingDone,
    updatesInFlight,
    requests,            \* the <updates> body of every $.ajax call, in call order
    promise,             \* promise[k]: the state of request k's jqXHR
    completed,           \* the request numbers in the order they completed
    resolveCalls,        \* how often resolveUpdateListItems ran
    aggregated,          \* the list $.when was applied to, when it ran
    dfd                  \* the deferred updateListItems returns

vars == <<pc, opt, updates, updatePromisesList, batchProcessingDone,
          updatesInFlight, requests, promise, completed, resolveCalls,
          aggregated, dfd>>

\* the closure variables of one call, as the helpers pass them along
Closure ==
    [updates |-> updates, updatePromisesList |-> updatePromisesList,
     batchProcessingDone |-> batchProcessingDone,
     updatesInFlight |-> updatesInFlight, requests |-> requests,
     promise |-> promise, resolveCalls |-> resolveCalls,
     aggregated |-> aggregated, dfd |-> dfd]

\* ------------------------------------------------------ getBatchUpdateList
RECURSIVE Shift_OffByOne(_, _, _, _)
\* the loop with `count <= opt.batchSize` for `count < opt.batchSize`
Shift_OffByOne(q, count, xml, batchSize) ==
    IF Len(q) > 0 /\ count <= batchSize
    THEN Shift_OffByOne(Tail(q), count + 1, Append(xml, Head(q)), batchSize)
    ELSE [xml |-> xml, rest |-> q]

RECURSIVE Shift(_, _, _, _)
\* the while loop: shift updates off the front while count < batchSize
Shift(q, count, xml, batchSize) ==
    IF Len(q) > 0 /\ count < batchSize
    THEN Shift(Tail(q), count + 1, Append(xml, Head(q)), batchSize)
    ELSE [xml |-> xml, rest |-> q]

\* the Batch wrapper is added unless the text already holds a </Batch>
BatchWrapper(xml) ==
    IF \E i \in 1..Len(xml) : xml[i].hasBatchTag THEN "none" ELSE "Continue"

\* the flag raised by a batch that is not full, not by the empty queue
getBatchUpdateList_DoneOnShortBatch(s, o) ==
    LET r == Shift(s.updates, 0, <<>>, o.batchSize)
    IN  [xml |-> [items |-> r.xml, OnError |-> BatchWrapper(r.xml)],
         s |-> [s EXCEPT !.updates = r.rest,
                         !.batchProcessingDone = (@ \/ Len(r.xml) < o.batchSize)]]

getBatchUpdateList(s, o) ==
    LET r == Shift(s.updates, 0, <<>>, o.batchSize)
    IN  [xml |-> [items |-> r.xml, OnError |-> BatchWrapper(r.xml)],
         s |-> [s EXCEPT !.updates = r.rest,
                         !.batchProcessingDone = (@ \/ Len(r.rest) = 0)]]

RECURSIVE BatchesYielded(_, _)
\* the number of batches getBatchUpdateList cuts a queue into
BatchesYielded(q, batchSize) ==
    LET r == Shift(q, 0, <<>>, batchSize)
    IN  IF Len(r.rest) = 0 THEN 1 ELSE 1 + BatchesYielded(r.rest, batchSize)

\* ------------------------------------------------------------------ $.when
\* $.when.apply($, list): rejected with the arguments of the first promise of
\* the list (in list order) that is rejected, else pending while one is
\* pending, else resolved: with no argument for an empty list, with the
\* promise's own arguments for a list of one, with one array per promise
\* (in list order) otherwise
FirstRejected(list, p) ==
    LET R == { i \in 1..Len(list) : p[list[i]].state = "rejected" }
    IN  CHOOSE i \in R : \A j \in R : i <= j

when(list, p) ==
    IF \E i \in 1..Len(list) : p[list[i]].state = "rejected"
    THEN Rejected(p[list[FirstRejected(list, p)]].args)
    ELSE IF \E i \in 1..Len(list) : p[list[i]].state = "pending"
         THEN Pending
         ELSE IF Len(list) = 1
              THEN Resolved(p[list[1]].args)
              ELSE Resolved([i \in 1..Len(list) |-> Arr(p[list[i]].args)])

\* ---------------------------------------------------- processAjaxResponses
\* the loop body without the doesMsgHaveError test on a good response
ForEachBody_NoMsgCheck(response, reqResponse, isMultiRequest, isHttpError) ==
    LET r1 == IF isMultiRequest
              THEN [response EXCEPT
                      !.httpData = Arr(Append(@.items,
                          IF isHttpError THEN JsIndex(reqResponse, 2)
                                         ELSE JsIndex(reqResponse, 0))),
                      !.xhrRequest = Arr(Append(@.items, JsIndex(reqResponse, 2)))]
              ELSE response
    IN  IF isHttpError
        THEN [r1 EXCEPT !.status = "error",
                        !.message = IF Truthy(JsIndex(reqResponse, 1))
                                    THEN JsIndex(reqResponse, 1) ELSE HttpError]
        ELSE r1

\* the loop body with unshift for push: the newest entry goes in front
ForEachBody_Unshift(response, reqResponse, isMultiRequest, isHttpError) ==
    LET r1 == IF isMultiRequest
              THEN [response EXCEPT
                      !.httpData = Arr(<<IF isHttpError
                                         THEN JsIndex(reqResponse, 2)
                                         ELSE JsIndex(reqResponse, 0)>> \o @.items),
                      !.xhrRequest = Arr(<<JsIndex(reqResponse, 2)>> \o @.items)]
              ELSE response
    IN  IF isHttpError
        THEN [r1 EXCEPT !.status = "error",
                        !.message = IF Truthy(JsIndex(reqResponse, 1))
                                    THEN JsIndex(reqResponse, 1) ELSE HttpError]
        ELSE IF doesMsgHaveError(JsIndex(reqResponse, 0))
             THEN [r1 EXCEPT !.status = "error",
                             !.message = getMsgError(JsIndex(reqResponse, 0))]
             ELSE r1

\* the loop body that keeps the message of the first error it meets
ForEachBody_KeepsFirst(response, reqResponse, isMultiRequest, isHttpError) ==
    LET r1 == IF isMultiRequest
              THEN [response EXCEPT
                      !.httpData = Arr(Append(@.items,
                          IF isHttpError THEN JsIndex(reqResponse, 2)
                                         ELSE JsIndex(reqResponse, 0))),
                      !.xhrRequest = Arr(Append(@.items, JsIndex(reqResponse, 2)))]
              ELSE response
    IN  IF r1.status = "error" THEN r1
        ELSE IF isHttpError
        THEN [r1 EXCEPT !.status = "error",
                        !.message = IF Truthy(JsIndex(reqResponse, 1))
                                    THEN JsIndex(reqResponse, 1) ELSE HttpError]
        ELSE IF doesMsgHaveError(JsIndex(reqResponse, 0))
             THEN [r1 EXCEPT !.status = "error",
                             !.message = getMsgError(JsIndex(reqResponse, 0))]
             ELSE r1

\* the body of args.forEach for one reqResponse
ForEachBody(response, reqResponse, isMultiRequest, isHttpError) ==
    LET r1 == IF isMultiRequest
              THEN [response EXCEPT
                      !.httpData = Arr(Append(@.items,
                          IF isHttpError THEN JsIndex(reqResponse, 2)
                                         ELSE JsIndex(reqResponse, 0))),
                      !.xhrRequest = Arr(Append(@.items, JsIndex(reqResponse, 2)))]
              ELSE response
    IN  IF isHttpError
        THEN [r1 EXCEPT !.status = "error",
                        !.message = IF Truthy(JsIndex(reqResponse, 1))
                                    THEN JsIndex(reqResponse, 1) ELSE HttpError]
        ELSE IF doesMsgHaveError(JsIndex(reqResponse, 0))
             THEN [r1 EXCEPT !.status = "error",
                             !.message = getMsgError(JsIndex(reqResponse, 0))]
             ELSE r1

RECURSIVE ForEach(_, _, _, _, _)
ForEach(args, i, response, isMultiRequest, isHttpError) ==
    IF i > Len(args) THEN response
    ELSE ForEach(args, i + 1,
                 ForEachBody(response, args[i], isMultiRequest, isHttpError),
                 isMultiRequest, isHttpError)

\* the response with `updatePromisesList.length > 0` for `> 1`
BuildResponse_AlwaysMulti(reqArgs, isHttpError, listLen) ==
    LET isMultiRequest == listLen > 0
        a == Arr(reqArgs)
        response == [status |-> "success",
                     message |-> UpdateSuccessful,
                     httpData |-> IF isMultiRequest THEN Arr(<<>>)
                                  ELSE IF isHttpError THEN JsIndex(a, 2)
                                                      ELSE JsIndex(a, 0),
                     xhrRequest |-> IF isMultiRequest THEN Arr(<<>>)
                                    ELSE JsIndex(a, 2)]
        args == IF isMultiRequest THEN reqArgs ELSE <<a>>
    IN  ForEach(args, 1, response, isMultiRequest, isHttpError)

\* the response object built from the arguments of the $.when callback
BuildResponse(reqArgs, isHttpError, listLen) ==
    LET isMultiRequest == listLen > 1
        a == Arr(reqArgs)
        response == [status |-> "success",
                     message |-> UpdateSuccessful,
                     httpData |-> IF isMultiRequest THEN Arr(<<>>)
                                  ELSE IF isHttpError THEN JsIndex(a, 2)
                                                      ELSE JsIndex(a, 0),
                     xhrRequest |-> IF isMultiRequest THEN Arr(<<>>)
                                    ELSE JsIndex(a, 2)]
        args == IF isMultiRequest THEN reqArgs ELSE <<a>>
    IN  ForEach(args, 1, response, isMultiRequest, isHttpError)

NoResponse == [status |-> "none", message |-> Undefined,
               httpData |-> Undefined, xhrRequest |-> Undefined]

\* dfd.rejectWith / dfd.resolveWith: a deferred settles once
Settle(d, state, response) ==
    IF d.state = "pending" THEN [state |-> state, response |-> response] ELSE d

\* the response handed to dfd.resolveWith whatever its status
processAjaxResponses_AlwaysResolve(s, reqArgs, isHttpError) ==
    LET response == BuildResponse(reqArgs, isHttpError, Len(s.updatePromisesList))
    IN  [s EXCEPT !.dfd = Settle(@, "resolved", response)]

processAjaxResponses(s, reqArgs, isHttpError) ==
    LET response == BuildResponse(reqArgs, isHttpError, Len(s.updatePromisesList))
    IN  IF response.status = "error"
        THEN [s EXCEPT !.dfd = Settle(@, "rejected", response)]
        ELSE [s EXCEPT !.dfd = Settle(@, "resolved", response)]

\* -------------------------------------------------- resolveUpdateListItems
resolveUpdateListItems(s) ==
    LET w == when(s.updatePromisesList, s.promise)
        s1 == [s EXCEPT !.resolveCalls = @ + 1,
                        !.aggregated = s.updatePromisesList]
    IN  IF w.state = "resolved" THEN processAjaxResponses(s1, w.args, FALSE)
        ELSE IF w.state = "rejected" THEN processAjaxResponses(s1, w.args, TRUE)
        ELSE s1

\* ------------------------------------------- execBatchUpdate, onUpdateDone
RECURSIVE execBatchUpdate(_, _)
RECURSIVE execBatchUpdate_OneTooMany(_, _)
\* the guard with `updatesInFlight > maxConcurrentUpds` for `>=`
execBatchUpdate_OneTooMany(s, o) ==
    IF s.batchProcessingDone \/ s.updatesInFlight > o.concurrency
    THEN s
    ELSE LET b == getBatchUpdateList(s, o)
             k == Len(s.requests) + 1
             s1 == [b.s EXCEPT !.requests = Append(@, b.xml),
                               !.promise = Append(@, Pending),
                               !.updatesInFlight = @ + 1,
                               !.updatePromisesList = Append(@, k)]
         IN  IF ~s1.batchProcessingDone
             THEN execBatchUpdate_OneTooMany(s1, o) ELSE s1

\* one request per call: without the call of itself of the last lines
execBatchUpdate_NoRefill(s, o) ==
    IF s.batchProcessingDone \/ s.updatesInFlight >= o.concurrency
    THEN s
    ELSE LET b == getBatchUpdateList(s, o)
             k == Len(s.requests) + 1
         IN  [b.s EXCEPT !.requests = Append(@, b.xml),
                         !.promise = Append(@, Pending),
                         !.updatesInFlight = @ + 1,
                         !.updatePromisesList = Append(@, k)]

execBatchUpdate(s, o) ==
    IF s.batchProcessingDone \/ s.updatesInFlight >= o.concurrency
    THEN s
    ELSE LET b == getBatchUpdateList(s, o)
             k == Len(s.requests) + 1
             \* $.ajax, updatesInFlight++, .always(onUpdateDone), push
             s1 == [b.s EXCEPT !.requests = Append(@, b.xml),
                               !.promise = Append(@, Pending),
                               !.updatesInFlight = @ + 1,
                               !.updatePromisesList = Append(@, k)]
         IN  IF ~s1.batchProcessingDone THEN execBatchUpdate(s1, o) ELSE s1

\* the handler without the relaunch of its last lines
onUpdateDone_NoRelaunch(s, o) ==
    LET s1 == [s EXCEPT !.updatesInFlight = @ - 1]
    IN  IF s1.updatesInFlight = 0 /\ s1.batchProcessingDone
        THEN resolveUpdateListItems(s1)
        ELSE s1

\* the handler that takes `updatesInFlight === 0` alone for the end
onUpdateDone_NoDoneTest(s, o) ==
    LET s1 == [s EXCEPT !.updatesInFlight = @ - 1]
    IN  IF s1.updatesInFlight = 0
        THEN resolveUpdateListItems(s1)
        ELSE IF s1.updatesInFlight < o.concurrency
             THEN execBatchUpdate(s1, o)
             ELSE s1

\* the handler with `||` for `&&`: it aggregates as soon as the queue is
\* empty, while requests are still in flight
onUpdateDone_DoneOrIdle(s, o) ==
    LET s1 == [s EXCEPT !.updatesInFlight = @ - 1]
    IN  IF s1.updatesInFlight = 0 \/ s1.batchProcessingDone
        THEN resolveUpdateListItems(s1)
        ELSE IF s1.updatesInFlight < o.concurrency
             THEN execBatchUpdate(s1, o)
             ELSE s1

onUpdateDone(s, o) ==
    LET s1 == [s EXCEPT !.updatesInFlight = @ - 1]
    IN  IF s1.updatesInFlight = 0 /\ s1.batchProcessingDone
        THEN resolveUpdateListItems(s1)
        ELSE IF s1.updatesInFlight < o.concurrency
             THEN execBatchUpdate(s1, o)
             ELSE s1

\* ------------------------------------------------- the same, async: false
\* With async: false $.ajax returns a jqXHR that is settled already, so
\* .always(onUpdateDone) of line 164 runs onUpdateDone at once, inside
\* execBatchUpdate and before the push of line 165.  out[k] is what the
\* transport answers to request k.
RECURSIVE execBatchUpdateSync(_, _, _)
RECURSIVE onUpdateDoneSync(_, _, _)

execBatchUpdateSync(s, o, out) ==
    IF s.batchProcessingDone \/ s.updatesInFlight >= o.concurrency
    THEN s
    ELSE LET b == getBatchUpdateList(s, o)
             k == Len(s.requests) + 1
             \* $.ajax (answered before it returns), updatesInFlight++
             s1 == [b.s EXCEPT !.requests = Append(@, b.xml),
                               !.promise = Append(@, out[k]),
                               !.updatesInFlight = @ + 1]
             \* updatePromise.always(onUpdateDone)
             s2 == onUpdateDoneSync(s1, o, out)
             \* updatePromisesList.push(updatePromise)
             s3 == [s2 EXCEPT !.updatePromisesList = Append(@, k)]
         IN  IF ~s3.batchProcessingDone
             THEN execBatchUpdateSync(s3, o, out) ELSE s3

onUpdateDoneSync(s, o, out) ==
    LET s1 == [s EXCEPT !.updatesInFlight = @ - 1]
    IN  IF s1.updatesInFlight = 0 /\ s1.batchProcessingDone
        THEN resolveUpdateListItems(s1)
        ELSE IF s1.updatesInFlight < o.concurrency
             THEN execBatchUpdateSync(s1, o, out)
             ELSE s1

\* what the transport can answer to request k
Outcomes(k) ==
    { Resolved(DoneArgs(k, err)) : err \in SPErrors }
       \cup { Rejected(FailArgs(k, f)) : f \in AjaxFailures }

RECURSIVE OutcomeSeqs(_)
\* the answers to requests 1..n
OutcomeSeqs(n) ==
    IF n = 0 THEN {<<>>}
    ELSE { Append(a, x) : a \in OutcomeSeqs(n - 1), x \in Outcomes(n) }

\* ------------------------------------------------------------------ actions
Commit(s) ==
    /\ updates' = s.updates
    /\ updatePromisesList' = s.updatePromisesList
    /\ batchProcessingDone' = s.batchProcessingDone
    /\ updatesInFlight' = s.updatesInFlight
    /\ requests' = s.requests
    /\ promise' = s.promise
    /\ resolveCalls' = s.resolveCalls
    /\ aggregated' = s.aggregated
    /\ dfd' = s.dfd

\* the values of options.updateOnError
OnErrorValues == {"Continue", "Return"}

NoOptions == [updates |-> <<>>, batchSize |-> 0, concurrency |-> 0,
              updateOnError |-> "Continue", async |-> TRUE]

Init ==
    /\ pc = "idle"
    /\ opt = NoOptions
    /\ updates = <<>>
    /\ updatePromisesList = <<>>
    /\ batchProcessingDone = FALSE
    /\ updatesInFlight = 0
    /\ requests = <<>>
    /\ promise = <<>>
    /\ completed = <<>>
    /\ resolveCalls = 0
    /\ aggregated = <<>>
    /\ dfd = [state |-> "pending", response |-> NoResponse]

\* the call: opt is built, the closure variables are set, execBatchUpdate()
updateListItems ==
    /\ pc = "idle"
    /\ \E q \in Queues, bs \in 0..MaxBatch, c \in 0..MaxConc,
          e \in OnErrorValues :
         LET o == [updates |-> q, batchSize |-> bs, concurrency |-> c,
                   updateOnError |-> e, async |-> TRUE]
             s0 == [Closure EXCEPT !.updates = getUpdateArray(o.updates)]
         IN  /\ opt' = o
             /\ Commit(execBatchUpdate(s0, o))
    /\ pc' = "called"
    /\ UNCHANGED completed

\* the call with async: false: every request is answered inside the call.
\* (With batchSize <= 0 and updates to send the call never returns; only
\* batchSize >= 1 is tried.)
updateListItemsSync ==
    /\ pc = "idle"
    /\ \E q \in Queues, bs \in 1..MaxBatch, c \in 0..MaxConc,
          e \in OnErrorValues :
         LET o == [updates |-> q, batchSize |-> bs, concurrency |-> c,
                   updateOnError |-> e, async |-> FALSE]
             s0 == [Closure EXCEPT !.updates = getUpdateArray(o.updates)]
         IN  \E out \in OutcomeSeqs(IF c >= 1 THEN BatchesYielded(q, bs) ELSE 0) :
               LET s == execBatchUpdateSync(s0, o, out)
               IN  /\ opt' = o
                   /\ Commit(s)
                   /\ completed' = [k \in 1..Len(s.requests) |-> k]
    /\ pc' = "called"

\* a run that never exhausts its queue is cut off after MaxSent requests
MayComplete(k) ==
    /\ pc = "called"
    /\ k \in 1..Len(promise)
    /\ promise[k].state = "pending"
    /\ (batchProcessingDone \/ Len(requests) < MaxSent)

\* request k succeeds: its promise is resolved, .always runs onUpdateDone
ajaxDone ==
    \E k \in 1..Len(promise), err \in SPErrors :
       /\ MayComplete(k)
       /\ Commit(onUpdateDone(
              [Closure EXCEPT !.promise[k] = Resolved(DoneArgs(k, err))], opt))
       /\ completed' = Append(completed, k)
       /\ UNCHANGED <<pc, opt>>

\* request k fails: its promise is rejected, .always runs onUpdateDone
ajaxFail ==
    \E k \in 1..Len(promise), f \in AjaxFailures :
       /\ MayComplete(k)
       /\ Commit(onUpdateDone(
              [Closure EXCEPT !.promise[k] = Rejected(FailArgs(k, f))], opt))
       /\ completed' = Append(completed, k)
       /\ UNCHANGED <<pc, opt>>

Next == updateListItems \/ ajaxDone \/ ajaxFail

Spec == Init /\ [][Next]_vars

\* the calls with async: true and with async: false
NextSync == Next \/ updateListItemsSync

SpecSync == Init /\ [][NextSync]_vars

\* a response arrives for request k: the step ajaxDone or ajaxFail takes
\* for it, seen on `completed` alone (no other step changes `completed`)
Respond ==
    \E k \in 1..Len(promise) :
        MayComplete(k) /\ completed' = Append(completed, k)

\* every request sent gets its one outcome: responses keep arriving while
\* one is outstanding
SpecLive == Spec /\ WF_completed(Respond)

\* ------------------------------------------------------- derived quantities
Called == pc = "called"
ValidConfig == opt.batchSize >= 1 /\ opt.concurrency >= 1
Settled == dfd.state # "pending"

\* the requests handed to $.ajax whose response has not arrived
Outstanding == { k \in 1..Len(promise) : promise[k].state = "pending" }
FailedRequests == { k \in 1..Len(promise) : promise[k].state = "rejected" }
AppErrorRequests ==
    { k \in 1..Len(promise) :
        promise[k].state = "resolved" /\ promise[k].args[1].error # <<>> }

RECURSIVE SentUpTo(_)
\* the updates of requests 1..k, concatenated in the order the requests were made
SentUpTo(k) == IF k = 0 THEN <<>> ELSE SentUpTo(k - 1) \o requests[k].items

Ceil(n, b) == (n + b - 1) \div b

\* ------------------------------------------------------------------ claims

\* C1: with concurrency c >= 1 and batchSize >= 1, the number of requests
\* submitted and not yet completed never exceeds c.
C1_InFlightBounded ==
    (Called /\ ValidConfig) => Cardinality(Outstanding) <= opt.concurrency

\* the window is full (2 of 2) after a completion and a failure
C1_Witness ==
    /\ Called /\ ValidConfig /\ opt.concurrency = 2
    /\ Cardinality(Outstanding) = 2
    /\ FailedRequests # {}

\* C2: each batch holds at most batchSize updates, and the batches in build
\* order followed by what is left in the queue are the original queue.
C2_BatchesPartitionQueue ==
    (Called /\ opt.batchSize >= 1) =>
        /\ \A k \in 1..Len(requests) : Len(requests[k].items) <= opt.batchSize
        /\ SentUpTo(Len(requests)) \o updates = opt.updates

\* three updates went out in two batches that completed in reverse order
C2_Witness ==
    /\ Called /\ opt.batchSize = 2 /\ Len(opt.updates) = 3
    /\ Len(requests) = 2 /\ updates = <<>>
    /\ completed = <<2, 1>>

\* C3: for n >= 1 updates exactly ceil(n/batchSize) requests are made over the
\* whole dispatch whatever fails: never more, all of them once nothing is
\* outstanding, every one but the last full, none made twice.
C3_ExactlyCeilBatches ==
    (Called /\ ValidConfig /\ Len(opt.updates) >= 1) =>
        LET total == Ceil(Len(opt.updates), opt.batchSize)
        IN  /\ Len(requests) <= total
            /\ (Outstanding = {} => Len(requests) = total)
            /\ \A k \in 1..Len(requests) :
                  /\ k < total => Len(requests[k].items) = opt.batchSize
                  /\ k = total => Len(requests[k].items) =
                        Len(opt.updates) - (total - 1) * opt.batchSize
                  /\ \A j \in 1..Len(requests) :
                        j # k => requests[j].items # requests[k].items

\* three batches were made although the first two failed
C3_Witness ==
    /\ Called /\ ValidConfig /\ Len(opt.updates) = 3 /\ opt.batchSize = 1
    /\ Len(requests) = 3
    /\ {1, 2} \subseteq FailedRequests
    /\ Outstanding = {}

\* C4: called with no update, the dispatch ends at once with status success
\* and makes no request.
C4_EmptyQueueNoRequest ==
    (Called /\ ValidConfig /\ Len(opt.updates) = 0) =>
        /\ Len(requests) = 0
        /\ dfd.state = "resolved" /\ dfd.response.status = "success"

\* C5: resolveUpdateListItems runs at most once, and only with the queue
\* exhausted and no request outstanding.
C5_AggregateOnceWhenDone ==
    (Called /\ ValidConfig) =>
        /\ resolveCalls <= 1
        /\ (resolveCalls >= 1 \/ Settled) =>
              /\ updates = <<>> /\ batchProcessingDone
              /\ Outstanding = {} /\ updatesInFlight = 0

\* the result of a dispatch of two or more requests was delivered
C5_Witness ==
    /\ Called /\ ValidConfig /\ Settled /\ resolveCalls = 1
    /\ Len(requests) >= 2

\* C6: when every request gets its outcome, a dispatch with valid batchSize
\* and concurrency eventually delivers its result.
C6_EventuallyDelivered == (Called /\ ValidConfig) ~> Settled

\* a dispatch that needed a relaunch after a failure delivered its result
C6_Witness ==
    /\ Called /\ ValidConfig /\ Settled
    /\ Len(requests) > opt.concurrency
    /\ FailedRequests # {}

\* C7: with batchSize <= 0 or concurrency <= 0 the call fails at once: no
\* request is made and the caller gets an error.
C7_InvalidConfigRejected ==
    (Called /\ ~ValidConfig) =>
        /\ Len(requests) = 0
        /\ dfd.state = "rejected"

\* C8: the status is success or error; it is error exactly when a request
\* failed or a response carries an error, and success comes with the fixed
\* message.
C8_StatusClassification ==
    (Called /\ ValidConfig /\ Settled) =>
        LET bad == FailedRequests # {} \/ AppErrorRequests # {}
        IN  /\ dfd.response.status \in {"success", "error"}
            /\ dfd.response.status = "error" <=> bad
            /\ dfd.response.status = "success" <=>
                  (~bad /\ dfd.response.message = UpdateSuccessful)

\* an error status that comes from a response, no request having failed
C8_Witness ==
    /\ Called /\ ValidConfig /\ Settled
    /\ FailedRequests = {} /\ AppErrorRequests # {}
    /\ Len(requests) >= 2
    /\ dfd.response.status = "error"

\* the message a failed request reports: its textStatus, "HTTP error." if none
FailureMessage(k) ==
    IF Truthy(promise[k].args[2]) THEN promise[k].args[2] ELSE HttpError

\* the failed request that completed last
LastFailed ==
    LET F == { i \in 1..Len(completed) : completed[i] \in FailedRequests }
    IN  completed[CHOOSE i \in F : \A j \in F : j <= i]

\* C9: when two or more requests failed, the message is that of the failed
\* request that completed last.
C9_LastCompletedFailureWins ==
    (Called /\ ValidConfig /\ Settled /\ Cardinality(FailedRequests) >= 2) =>
        dfd.response.message = FailureMessage(LastFailed)

HttpData == dfd.response.httpData
XhrRequest == dfd.response.xhrRequest
MultiRequest == Len(requests) > 1

\* C11: in a dispatch of more than one request, httpData and xhrRequest are
\* arrays with one entry per request, whether requests failed or not.
C11_OneEntryPerRequest ==
    (Called /\ ValidConfig /\ Settled /\ MultiRequest) =>
        /\ HttpData.kind = "array" /\ Len(HttpData.items) = Len(requests)
        /\ XhrRequest.kind = "array" /\ Len(XhrRequest.items) = Len(requests)

C13_SingleValues ==
    (Called /\ ValidConfig /\ Settled /\ Len(opt.updates) <= opt.batchSize) =>
        /\ Len(requests) = 1
        /\ HttpData.kind # "array" /\ XhrRequest.kind # "array"
        /\ promise[1].state = "resolved" =>
              HttpData = promise[1].args[1] /\ XhrRequest = Xhr(1)

\* the one request of a dispatch failed and the result has been delivered
C13_Witness ==
    /\ Called /\ ValidConfig /\ Settled
    /\ Len(opt.updates) = 2 /\ opt.batchSize = 2
    /\ FailedRequests = {1}
    /\ HttpData.kind = "string"

\* the good responses with an error, first and last in the order scanned
FirstAppError == CHOOSE k \in AppErrorRequests : \A j \in AppErrorRequests : k <= j
LastAppError == CHOOSE k \in AppErrorRequests : \A j \in AppErrorRequests : j <= k

\* C14 as stated: no request failed and two or more responses carry an error:
\* the status is error and the message is that of the first such response.
C14_FirstAppErrorWins ==
    (Called /\ ValidConfig /\ Settled /\ FailedRequests = {}
            /\ Cardinality(AppErrorRequests) >= 2) =>
        /\ dfd.response.status = "error"
        /\ dfd.response.message = Str(promise[FirstAppError].args[1].error)

\* C14 amended: the message is that of the last such response in the order
\* the requests were made; a later response's error replaces an earlier one.
C14_LastAppErrorWins ==
    (Called /\ ValidConfig /\ Settled /\ FailedRequests = {}
            /\ Cardinality(AppErrorRequests) >= 2) =>
        /\ dfd.response.status = "error"
        /\ dfd.response.message = Str(promise[LastAppError].args[1].error)

\* two responses with different errors, the later request answered first
C14_Witness ==
    /\ Called /\ ValidConfig /\ Settled /\ FailedRequests = {}
    /\ AppErrorRequests = {1, 2}
    /\ promise[1].args[1].error # promise[2].args[1].error
    /\ completed = <<2, 1>>

Min(a, b) == IF a <= b THEN a ELSE b

\* C15: when the call returns, before any response, the number of requests in
\* flight is min(concurrency, number of batches of the queue).
C15_InitialFanOut ==
    (Called /\ ValidConfig /\ completed = <<>>) =>
        /\ Cardinality(Outstanding) =
              Min(opt.concurrency, BatchesYielded(opt.updates, opt.batchSize))
        /\ Len(opt.updates) >= 1 =>
              Cardinality(Outstanding) =
                 Min(opt.concurrency, Ceil(Len(opt.updates), opt.batchSize))

\* the call returned with two requests in flight and a third batch waiting
C15_Witness ==
    /\ Called /\ completed = <<>>
    /\ opt.concurrency = 2 /\ opt.batchSize = 1 /\ Len(opt.updates) = 3
    /\ Cardinality(Outstanding) = 2

\* C17: while updates remain in the queue, concurrency requests are in
\* flight, after the call and after every completion.
C17_WorkConserving ==
    (Called /\ ValidConfig /\ updates # <<>>) =>
        /\ Cardinality(Outstanding) = opt.concurrency
        /\ updatesInFlight = opt.concurrency

\* a completion was handled, an update still waits, the window is full again
C17_Witness ==
    /\ Called /\ ValidConfig /\ updates # <<>>
    /\ Len(completed) >= 1
    /\ Cardinality(Outstanding) = opt.concurrency

\* C18: for a non-empty queue and batchSize >= 1 the flag is true exactly when
\* the last update has been pulled; once true it stays true and no request is
\* made any more; the queue never grows.
C18_DoneFlagMonotone ==
    [][ /\ (Called' /\ opt'.batchSize >= 1 /\ Len(opt'.updates) >= 1) =>
              (batchProcessingDone' <=> updates' = <<>>)
        /\ (Called /\ opt.batchSize >= 1 /\ Len(opt.updates) >= 1) =>
              /\ batchProcessingDone =>
                    batchProcessingDone' /\ requests' = requests
              /\ Len(updates') <= Len(updates)
              /\ \E i \in 0..Len(updates) : updates' = SubSeq(updates, i + 1, Len(updates))
      ]_vars

\* the flag is up after the third pull of a queue of three
C18_Witness ==
    /\ Called /\ opt.batchSize = 1 /\ Len(opt.updates) = 3
    /\ batchProcessingDone /\ Len(requests) = 3
    /\ Len(completed) >= 1

\* the result as the outcomes of the requests, in the order the requests were
\* made, decide it: `completed` plays no part
ResultOf(p) ==
    LET w == when([k \in 1..Len(p) |-> k], p)
        response == BuildResponse(w.args, w.state = "rejected", Len(p))
    IN  [state |-> IF response.status = "error" THEN "rejected" ELSE "resolved",
         response |-> response]

C16_ConfiguredDirective ==
    (Called /\ \A i \in 1..Len(opt.updates) : ~opt.updates[i].hasBatchTag) =>
        \A k \in 1..Len(requests) : requests[k].OnError = opt.updateOnError

\* C19: when resolveUpdateListItems runs, the list it hands to $.when holds
\* every request of the dispatch, with async: false too.
C19_AggregatesEveryRequest ==
    (Called /\ ValidConfig /\ Len(opt.updates) >= 1 /\ resolveCalls >= 1) =>
        /\ Len(aggregated) = Len(requests)
        /\ \A k \in 1..Len(requests) : \E i \in 1..Len(aggregated) : aggregated[i] = k

====
